---- MODULE Spec2Model ----
(***************************************************************************)
(* Response orchestration of the GovEx Academy AI assistant:               *)
(* handleSendMessage -> getAIResponse -> ClaudeAIService.sendMessage, with *)
(* the rate limiter, the response cache, the input sanitizer, the fallback *)
(* responder (CLAUDE_API_INTEGRATION_GUIDE.md) and the credential getter   *)
(* (config.js).                                                            *)
(*                                                                         *)
(* JavaScript strings that the code inspects (user text, cache keys) are   *)
(* sequences of one-character strings.  Texts that the code only passes    *)
(* on (canned answers, upstream answers) are opaque TLA+ strings.          *)
(***************************************************************************)
EXTENDS Integers, Sequences, FiniteSets, TLC

\* ------------------------------------------------------------------ bounds
MaxLimit == 1        \* largest request ceiling explored (maxRequests is 60 in the guide)
MaxTicks == 2        \* clock advances in one behaviour
CacheLimit == 2      \* cache capacity explored (100 in the guide, line 493)
MaxLen == 3          \* longest enumerated raw text of the sanitizer specification

\* --------------------------------------------------------- program constants
MaxInputLength == 2000                     \* .slice(0, 2000)
oneMinute == 60 * 1000                     \* const oneMinute = 60 * 1000

\* JavaScript's undefined, where a text is expected (Map.get on a missing key,
\* the text field of a content block that has none).
undefined == "undefined"

\* ------------------------------------------------------------ JS strings
Whitespace == {" ", "\t", "\n"}
AngleBrackets == {"<", ">"}

Min(S) == CHOOSE x \in S : \A y \in S : x <= y
Max(S) == CHOOSE x \in S : \A y \in S : x >= y

\* String.prototype.toLowerCase, on the letters the model uses.
lowerChar(c) ==
    CASE c = "A" -> "a"
      [] c = "B" -> "b"
      [] c = "C" -> "c"
      [] c = "D" -> "d"
      [] c = "E" -> "e"
      [] c = "H" -> "h"
      [] c = "L" -> "l"
      [] c = "P" -> "p"
      [] OTHER -> c

toLowerCase(s) == [i \in 1..Len(s) |-> lowerChar(s[i])]

\* String.prototype.trim: drops leading and trailing whitespace.
trim(s) ==
    LET keep == {i \in 1..Len(s) : s[i] \notin Whitespace}
    IN  IF keep = {} THEN <<>> ELSE SubSeq(s, Min(keep), Max(keep))

\* String.prototype.slice(0, n)
slice0(s, n) == SubSeq(s, 1, IF Len(s) < n THEN Len(s) ELSE n)

\* .replace(/[<>]/g, '')
replaceAngleBrackets(s) == SelectSeq(s, LAMBDA c : c \notin AngleBrackets)

\* String.prototype.includes
includes(s, sub) ==
    \E i \in 1..(Len(s) - Len(sub) + 1) : SubSeq(s, i, i + Len(sub) - 1) = sub

\* ------------------------------------------------------------- sanitizer
\* (variant: the .trim() call left out)
sanitizeInputNoTrim(input) == slice0(replaceAngleBrackets(input), MaxInputLength)

sanitizeInput(input) == slice0(trim(replaceAngleBrackets(input)), MaxInputLength)

\* ----------------------------------------------------- response validator
MaxResponseLength == 5000                  \* if (response.length > 5000)

\* "Response was too long. Please ask a more specific question."
ResponseTooLong ==
    <<"R", "e", "s", "p", "o", "n", "s", "e", " ", "w", "a", "s", " ", "t",
      "o", "o", " ", "l", "o", "n", "g", ".", " ", "P", "l", "e", "a", "s",
      "e", " ", "a", "s", "k", " ", "a", " ", "m", "o", "r", "e", " ", "s",
      "p", "e", "c", "i", "f", "i", "c", " ", "q", "u", "e", "s", "t", "i",
      "o", "n", ".">>

\* (variant: the length test left out)
validateResponseNoLimit(response) == response

validateResponse(response) ==
    IF Len(response) > MaxResponseLength THEN ResponseTooLong ELSE response

\* ---------------------------------------------------------- response cache
\* responseCache is a JavaScript Map: entries in insertion order; set on a key
\* that is present replaces the value in place.
MapHas(m, k) == \E i \in 1..Len(m) : m[i].key = k
MapIndex(m, k) == CHOOSE i \in 1..Len(m) : m[i].key = k
MapGet(m, k) == IF MapHas(m, k) THEN m[MapIndex(m, k)].value ELSE undefined
\* (variant: a key that is present is deleted and inserted anew, at the end)
MapSetMoveToEnd(m, k, v) ==
    Append(SelectSeq(m, LAMBDA e : e.key # k), [key |-> k, value |-> v])

MapSet(m, k, v) ==
    IF MapHas(m, k)
    THEN [m EXCEPT ![MapIndex(m, k)].value = v]
    ELSE Append(m, [key |-> k, value |-> v])
MapKeys(m) == [i \in 1..Len(m) |-> m[i].key]

\* const cacheKey = userMessage.toLowerCase().trim();
cacheKey(userMessage) == trim(toLowerCase(userMessage))

getCachedResponse(cache, userMessage) == MapGet(cache, cacheKey(userMessage))

\* (variant: the size limit left out)
setCachedResponseNoEvict(cache, userMessage, response) ==
    MapSet(cache, cacheKey(userMessage), response)

\* (variant: the newest key deleted instead of the first)
setCachedResponseEvictNewest(cache, userMessage, response) ==
    LET m == MapSet(cache, cacheKey(userMessage), response)
    IN  IF Len(m) > CacheLimit THEN SubSeq(m, 1, Len(m) - 1) ELSE m

setCachedResponse(cache, userMessage, response) ==
    LET m == MapSet(cache, cacheKey(userMessage), response)
    IN  IF Len(m) > CacheLimit THEN Tail(m) ELSE m

\* ------------------------------------------------------------ rate limiter
\* checkRateLimit on tracker t at time t0: the tracker afterwards, and whether
\* it threw 'Rate limit exceeded...'.
\* (variant: the window test written >= instead of >)
checkRateLimitResetAtBoundary(t, t0) ==
    LET t1 == IF t0 - t.lastReset >= oneMinute
              THEN [t EXCEPT !.requests = 0, !.lastReset = t0]
              ELSE t
    IN  IF t1.requests >= t1.maxRequests
        THEN [tracker |-> t1, threw |-> TRUE]
        ELSE [tracker |-> [t1 EXCEPT !.requests = @ + 1], threw |-> FALSE]

\* (variant: the ceiling test written > instead of >=)
checkRateLimitOffByOne(t, t0) ==
    LET t1 == IF t0 - t.lastReset > oneMinute
              THEN [t EXCEPT !.requests = 0, !.lastReset = t0]
              ELSE t
    IN  IF t1.requests > t1.maxRequests
        THEN [tracker |-> t1, threw |-> TRUE]
        ELSE [tracker |-> [t1 EXCEPT !.requests = @ + 1], threw |-> FALSE]

checkRateLimit(t, t0) ==
    LET t1 == IF t0 - t.lastReset > oneMinute
              THEN [t EXCEPT !.requests = 0, !.lastReset = t0]
              ELSE t
    IN  IF t1.requests >= t1.maxRequests
        THEN [tracker |-> t1, threw |-> TRUE]
        ELSE [tracker |-> [t1 EXCEPT !.requests = @ + 1], threw |-> FALSE]

\* ------------------------------------------------------------ canned texts
NavigationHelp == "I can help you navigate the dashboard! ..."
DefaultFallback == "I can help you search! Try asking me: ..."
ConnectTrouble == "I'm having trouble connecting to my AI services right now. ..."
ErrorApology == "I'm sorry, I encountered an error while processing your request. ..."
RateLimitExceeded == "Rate limit exceeded. Please wait a moment before asking another question."

WordNavigate == <<"n", "a", "v", "i", "g", "a", "t", "e">>
WordHowToUse == <<"h", "o", "w", " ", "t", "o", " ", "u", "s", "e">>
WordHelp == <<"h", "e", "l", "p">>

\* (variant: the default answer left out, so that the function falls off its end)
getFallbackResponseNoDefault(userMessage) ==
    LET message == toLowerCase(userMessage)
    IN  IF includes(message, WordNavigate) \/ includes(message, WordHowToUse)
           \/ includes(message, WordHelp)
        THEN [message |-> NavigationHelp, source |-> "fallback"]
        ELSE [message |-> undefined, source |-> undefined]

getFallbackResponse(userMessage) ==
    LET message == toLowerCase(userMessage)
    IN  IF includes(message, WordNavigate) \/ includes(message, WordHowToUse)
           \/ includes(message, WordHelp)
        THEN [message |-> NavigationHelp, source |-> "fallback"]
        ELSE [message |-> DefaultFallback, source |-> "fallback"]

\* ------------------------------------------------------------- credential
\* A credential is a sequence of segments; the empty one stands for the falsy
\* values null, undefined and ''.
null == <<>>
GoodKey == <<"sk-ant-", "k1">>
BadKey == <<"sk-", "k2">>

JsOr(a, b) == IF a # <<>> THEN a ELSE b

\* String.prototype.startsWith, on a credential
startsWith(key, prefix) == Len(key) >= 1 /\ key[1] = prefix

\* get apiKey() { return window.CLAUDE_API_KEY || process.env.CLAUDE_API_KEY || null; }
apiKey(windowKey, envKey) == JsOr(windowKey, JsOr(envKey, null))

\* Evaluating process.env throws a ReferenceError where the page has no
\* process global; the getter reaches it when window.CLAUDE_API_KEY is falsy.
apiKeyThrows(windowKey, noProcess) == windowKey = null /\ noProcess

\* validateAndLogConfig: false for a malformed key, otherwise whether there is
\* a key.  It assigns nothing.
validateAndLogConfig(key) ==
    IF key # null /\ ~startsWith(key, "sk-ant-") THEN "false"
    ELSE IF key # null THEN "true" ELSE "false"

\* ------------------------------------------------------------ environment
GithubIo == <<"g", "i", "t", "h", "u", "b", ".", "i", "o">>
GithubUserContent == <<"g", "i", "t", "h", "u", "b", "u", "s", "e", "r", "c", "o", "n", "t", "e", "n", "t", ".", "c", "o", "m">>
Localhost == <<"l", "o", "c", "a", "l", "h", "o", "s", "t">>
Loopback == <<"1", "2", "7", ".", "0", ".", "0", ".", "1">>

\* (variant: the localhost tests written with includes, like the first test)
resolveEnvironmentIncludes(host) ==
    IF includes(host, GithubIo) \/ includes(host, GithubUserContent)
    THEN "production"
    ELSE IF includes(host, Localhost) \/ includes(host, Loopback)
    THEN "development"
    ELSE "production"

\* CONFIG.environment (the function called once while CONFIG is built)
resolveEnvironment(host) ==
    IF includes(host, GithubIo) \/ includes(host, GithubUserContent)
    THEN "production"
    ELSE IF host = Localhost \/ host = Loopback
    THEN "development"
    ELSE "production"

\* CONFIG.claude.models[env], CONFIG.claude.maxTokens[env]
models(env) ==
    IF env = "development" THEN "claude-3-haiku-20240307" ELSE "claude-3-sonnet-20240229"
maxTokens(env) == IF env = "development" THEN 500 ELSE 1000

\* =================================================================== state
VARIABLES
    windowKey,         \* window.CLAUDE_API_KEY
    envKey,            \* process.env.CLAUDE_API_KEY
    now,               \* Date.now(), in ms since the page was loaded
    ticks,             \* clock advances so far
    rateLimitTracker,  \* ClaudeAIService.rateLimitTracker
    responseCache,     \* responseCache (a Map, in insertion order)
    calls,             \* the handleSendMessage invocations, by number
    nextCall,          \* number of the next invocation
    messages,          \* the chat's messages state, in rendering order
    isTyping,          \* the typing indicator
    netCalls,          \* fetch requests issued so far
    acquireLog,        \* component runs: the checkRateLimit calls made, with their verdicts
    putLog,            \* component runs: the cache keys put, in order
    lastGet,           \* component runs: the getCachedResponse made since the last put
    lastPut,           \* component runs: the arguments of the last setCachedResponse
    sanIn,             \* component runs: the text given to sanitizeInput
    sanOut,            \* component runs: what it returned
    sanDone,           \* component runs: whether sanitizeInput has returned
    fbIn,              \* component runs: the text given to getFallbackResponse
    fbOut,             \* component runs: what it returned
    vrIn,              \* component runs: the text given to validateResponse
    vrOut,             \* component runs: what it returned
    vrDone,            \* component runs: whether validateResponse has returned
    hostname,          \* window.location.hostname
    environment,       \* CONFIG.environment
    debugMode,         \* CONFIG.features.debugMode
    noProcess,         \* whether the page lacks a process global
    hasKey,            \* what the last validateAndLogConfig returned
    configPc           \* config.js: "loaded", "aborted" (it threw), "revalidated"

vars == <<windowKey, envKey, now, ticks, rateLimitTracker, responseCache, calls,
          nextCall, messages, isTyping, netCalls, acquireLog, putLog, lastGet, lastPut,
          sanIn, sanOut, sanDone, fbIn, fbOut, vrIn, vrOut, vrDone, hostname, environment, debugMode,
          noProcess, hasKey, configPc>>

deployVars == <<hostname, environment, debugMode, noProcess, hasKey, configPc>>
configVars == <<windowKey, envKey, deployVars>>
clockVars == <<now, ticks>>
chatVars == <<calls, nextCall, messages, isTyping, netCalls>>
sanVars == <<sanIn, sanOut, sanDone>>
fbVars == <<fbIn, fbOut>>
vrVars == <<vrIn, vrOut, vrDone>>
pureVars == <<fbVars, vrVars>>
componentVars == <<acquireLog, putLog, lastGet, lastPut, sanVars, pureVars>>

\* ------------------------------------------------------------------ inputs
\* One call more than the largest ceiling, so that a denial is reachable.
MaxCalls == MaxLimit + 1
CallIds == 1..MaxCalls
Limits == 1..(MaxLimit + 2)      \* ceilings of the limiter on its own

\* Raw texts typed into the chat box.
RawInputs ==
    { <<" ">>, <<"a">>, <<"<", "A", " ">> }

\* The catalog snapshot at the time of the call: well-formed, holding a null
\* resource record (r.govexOrExternal throws in getAIResponse), or holding a
\* null program record (p.name throws in buildSystemPrompt).
Catalogs == {"ok", "nullResource", "nullProgram"}

\* What the upstream service does with one request.
Answers == {"answer one", "answer two"}
Outcomes ==
    [kind : {"ok"}, text : Answers]
    \cup [kind : {"okNoText",      \* 200, content[0] has no text field
                  "okNoContent",   \* 200, no content array: content[0] throws
                  "badJson",       \* 200, response.json() rejects
                  "status401", "status429", "status500",
                  "transport"},    \* fetch rejects
          text : {undefined}]

\* The outcomes that are errors of the upstream call: a non-success status, a
\* transport failure, a body without the answer field.
ClientErrors ==
    {"status401", "status429", "status500", "transport", "badJson", "okNoContent",
     "okNoText"}

\* What a call remembers of its outcome: HTTP 429, another error, an answer.
outcomeClass(kind) ==
    IF kind = "status429" THEN "status429"
    ELSE IF kind \in ClientErrors THEN "clientError"
    ELSE "answer"

\* The upstream service answers 200 only to a request whose x-api-key header
\* carries a well-formed credential; any request can fail.
OutcomesFor(xApiKey) ==
    IF startsWith(xApiKey, "sk-ant-")
    THEN Outcomes
    ELSE {o \in Outcomes : o.kind \in {"status401", "status429", "status500",
                                       "transport"}}

\* Clock advances between events.
Deltas == {1, oneMinute - 1, oneMinute, oneMinute + 1}
\* The chat is explored with events in the same window or more than a window
\* apart; the limiter's boundary cases are explored in SpecRateLimit.
ChatDeltas == {oneMinute + 1}

NoCall ==
    [pc |-> "idle", raw |-> <<>>, via |-> "none", hadEntry |-> FALSE,
     xApiKey |-> null, content |-> <<>>, outcome |-> "none"]

\* -------------------------------------------------------------------- Init
NoGet == [key |-> <<>>, value |-> undefined, made |-> FALSE]
NoPut == [key |-> <<>>, value |-> undefined]
NoAnswer == [message |-> "", source |-> "none"]

InitSanitizer ==
    /\ sanIn = <<>>
    /\ sanOut = <<>>
    /\ sanDone = FALSE

InitValidator ==
    /\ vrIn = <<>>
    /\ vrOut = <<>>
    /\ vrDone = FALSE

InitComponents ==
    /\ acquireLog = <<>>
    /\ putLog = <<>>
    /\ lastGet = NoGet
    /\ lastPut = NoPut
    /\ fbIn = <<>>
    /\ fbOut = NoAnswer
    /\ InitValidator

InitChat ==
    /\ calls = [i \in CallIds |-> NoCall]
    /\ nextCall = 1
    /\ messages = <<>>
    /\ isTyping = FALSE
    /\ netCalls = 0

\* config.js has run: CONFIG built (lines 4-50), debugMode set (53-56), the
\* first validateAndLogConfig made (87), which throws when the getter does.
ConfigLoaded ==
    /\ environment = resolveEnvironment(hostname)
    /\ debugMode = (environment = "development")
    /\ IF apiKeyThrows(windowKey, noProcess)
       THEN hasKey = "none" /\ configPc = "aborted"
       ELSE /\ hasKey = validateAndLogConfig(apiKey(windowKey, envKey))
            /\ configPc = "loaded"

\* The page of the component runs: served from localhost, with a process global (noProcess is false).
InitPage ==
    /\ hostname = Localhost
    /\ noProcess = FALSE
    /\ ConfigLoaded

InitTracker(limit) ==
    /\ now = 0
    /\ ticks = 0
    /\ rateLimitTracker = [requests |-> 0, lastReset |-> 0, maxRequests |-> limit]

Init ==
    /\ windowKey \in {null, GoodKey}
    /\ envKey = null
    /\ InitPage
    /\ InitTracker(MaxLimit)
    /\ responseCache = <<>>
    /\ InitChat
    /\ InitComponents
    /\ InitSanitizer

\* ----------------------------------------------------------- orchestration
\* Caching of a successful answer in getAIResponse.
CacheAnswer(cache, sanitizedMessage, claudeResponse) ==
    IF claudeResponse.success
    THEN setCachedResponse(cache, sanitizedMessage, claudeResponse.message)
    ELSE cache

\* ClaudeAIService.sendMessage up to its await fetch(...): checkRateLimit first,
\* then buildSystemPrompt, inside the try.  "fetch" when the request goes out,
\* "caught" when the catch block returned the failure object.
sendMessageSync(tracker, t0, catalog) ==
    LET rl == checkRateLimit(tracker, t0)
    IN  IF rl.threw
        THEN [tracker |-> rl.tracker, state |-> "caught", denied |-> TRUE]
        ELSE IF catalog = "nullProgram"
        THEN [tracker |-> rl.tracker, state |-> "caught", denied |-> FALSE]
        ELSE [tracker |-> rl.tracker, state |-> "fetch", denied |-> FALSE]

\* The orchestrator's CacheCheck step, between sanitizing and
\* ClaudeAIService.sendMessage: a cached answer ends the call at once, a miss
\* goes on to sendMessage (whose first statement is the rate check).
\* (variant: the cache consulted inside sendMessage, after its rate check)
CacheCheckAfterRateCheck(cache, tracker, t0, sanitizedMessage, catalog) ==
    LET cached == getCachedResponse(cache, sanitizedMessage)
        sm == sendMessageSync(tracker, t0, catalog)
    IN  IF cached # undefined /\ ~sm.denied
        THEN [tracker |-> sm.tracker, state |-> "cached", denied |-> FALSE,
              cached |-> cached]
        ELSE [tracker |-> sm.tracker, state |-> sm.state, denied |-> sm.denied,
              cached |-> undefined]

CacheCheck(cache, tracker, t0, sanitizedMessage, catalog) ==
    LET cached == getCachedResponse(cache, sanitizedMessage)
        sm == sendMessageSync(tracker, t0, catalog)
    IN  IF cached # undefined
        THEN [tracker |-> tracker, state |-> "cached", denied |-> FALSE,
              cached |-> cached]
        ELSE [tracker |-> sm.tracker, state |-> sm.state, denied |-> sm.denied,
              cached |-> undefined]

\* ClaudeAIService.sendMessage from the settling of fetch to its return value.
sendMessageSettle(outcome) ==
    CASE outcome.kind = "ok" -> [message |-> outcome.text, success |-> TRUE]
      [] outcome.kind = "okNoText" -> [message |-> undefined, success |-> TRUE]
      [] OTHER -> [message |-> ConnectTrouble, success |-> FALSE]

\* getAIResponse after sendMessage returned.
aiResponseOf(claudeResponse, userMessage) ==
    IF claudeResponse.success
    THEN [message |-> claudeResponse.message, source |-> "claude"]
    ELSE getFallbackResponse(userMessage)

\* The TypeError thrown by r.govexOrExternal on a null record.
ContextError == "TypeError: Cannot read properties of null (reading 'govexOrExternal')"

\* handleSendMessage's catch (error) block: the error goes to the console, the
\* chat gets the fixed apology.
\* (variant: the error's text shown to the user)
catchBlockRawError(error) == [message |-> error, source |-> "error"]

catchBlock(error) == [message |-> ErrorApology, source |-> "error"]

\* botMessage / errorMessage appended by setMessages.
BotMessage(id, aiResponse) ==
    [type |-> "bot", call |-> id, message |-> aiResponse.message,
     source |-> aiResponse.source]

\* handleSendMessage, from the click to its first suspension (the fetch) or to
\* its end.
HandleSendMessage(inputMessage, catalog) ==
    /\ nextCall <= MaxCalls
    /\ nextCall' = nextCall + 1
    /\ UNCHANGED <<configVars, clockVars, componentVars>>
    /\ LET id == nextCall
           userMessage == [type |-> "user", call |-> id, text |-> inputMessage]
           sanitizedMessage == sanitizeInput(inputMessage)
           sm == CacheCheck(responseCache, rateLimitTracker, now, sanitizedMessage,
                            catalog)
           call == [NoCall EXCEPT
                      !.raw = inputMessage,
                      !.hadEntry = MapHas(responseCache, cacheKey(sanitizedMessage))]
       IN  IF trim(inputMessage) = <<>>
           THEN \* if (!inputMessage.trim()) return;
                /\ calls' = [calls EXCEPT ![id] = [NoCall EXCEPT !.pc = "returned",
                                                                  !.raw = inputMessage]]
                /\ UNCHANGED <<rateLimitTracker, responseCache, messages, isTyping,
                               netCalls>>
           ELSE IF catalog = "nullResource"
           THEN \* getAIResponse throws while building the context
                /\ calls' = [calls EXCEPT ![id] = [call EXCEPT !.pc = "done", !.via = "error"]]
                /\ messages' = messages \o
                       <<userMessage,
                         BotMessage(id, catchBlock(ContextError))>>
                /\ isTyping' = FALSE
                /\ UNCHANGED <<rateLimitTracker, responseCache, netCalls>>
           ELSE IF sm.state = "cached"
           THEN \* answered from the cache
                /\ calls' = [calls EXCEPT ![id] = [call EXCEPT !.pc = "done", !.via = "cache"]]
                /\ messages' = messages \o
                       <<userMessage,
                         BotMessage(id, [message |-> sm.cached, source |-> "claude"])>>
                /\ isTyping' = FALSE
                /\ UNCHANGED <<rateLimitTracker, responseCache, netCalls>>
           ELSE IF sm.state = "caught"
           THEN \* sendMessage's catch returned { success: false }
                /\ calls' = [calls EXCEPT ![id] = [call EXCEPT
                                   !.pc = "done",
                                   !.via = IF sm.denied THEN "denied" ELSE "caught"]]
                /\ rateLimitTracker' = sm.tracker
                /\ messages' = messages \o
                       <<userMessage, BotMessage(id, getFallbackResponse(inputMessage))>>
                /\ isTyping' = FALSE
                /\ UNCHANGED <<responseCache, netCalls>>
           ELSE \* the request goes out; the call is suspended at await fetch(...)
                /\ calls' = [calls EXCEPT ![id] =
                                [call EXCEPT !.pc = "fetching", !.via = "fetch",
                                             !.xApiKey = apiKey(windowKey, envKey),
                                             \* messages: [{ role: "user", content: userMessage }]
                                             !.content = inputMessage]]
                /\ rateLimitTracker' = sm.tracker
                /\ messages' = Append(messages, userMessage)
                /\ isTyping' = TRUE
                /\ netCalls' = netCalls + 1
                /\ UNCHANGED responseCache

\* The fetch of call id settles with the given outcome; sendMessage,
\* getAIResponse and handleSendMessage run to their ends.
FetchSettles(id, outcome) ==
    /\ calls[id].pc = "fetching"
    /\ outcome \in OutcomesFor(calls[id].xApiKey)
    /\ LET claudeResponse == sendMessageSettle(outcome)
       IN  /\ responseCache' = CacheAnswer(responseCache, sanitizeInput(calls[id].raw),
                                         claudeResponse)
           /\ messages' = Append(messages,
                                 BotMessage(id, aiResponseOf(claudeResponse, calls[id].raw)))
    /\ calls' = [calls EXCEPT ![id].pc = "done", ![id].outcome = outcomeClass(outcome.kind)]
    /\ isTyping' = FALSE
    /\ UNCHANGED <<configVars, clockVars, rateLimitTracker, nextCall, netCalls,
                   componentVars>>

\* Date.now() advances.
Tick(d) ==
    /\ ticks < MaxTicks
    /\ ticks' = ticks + 1
    /\ now' = now + d
    /\ UNCHANGED <<configVars, rateLimitTracker, responseCache, chatVars, componentVars>>

\* The deployment injects window.CLAUDE_API_KEY after config.js has loaded.
InjectApiKey(k) ==
    /\ windowKey = null
    /\ windowKey' = k
    /\ UNCHANGED <<envKey, deployVars, clockVars, rateLimitTracker, responseCache,
                   chatVars, componentVars>>

Next ==
    \/ \E inputMessage \in RawInputs, catalog \in Catalogs :
           HandleSendMessage(inputMessage, catalog)
    \/ \E id \in CallIds, outcome \in Outcomes : FetchSettles(id, outcome)
    \/ \E d \in ChatDeltas : Tick(d)
    \/ \E k \in {GoodKey, BadKey} : InjectApiKey(k)

Spec == Init /\ [][Next]_vars

\* ============================================ the rate limiter on its own
\* One checkRateLimit call at the current time; a throw is a denial.
TryAcquire ==
    /\ Len(acquireLog) < rateLimitTracker.maxRequests + 2
    /\ LET rl == checkRateLimit(rateLimitTracker, now)
       IN  /\ rateLimitTracker' = rl.tracker
           /\ acquireLog' = Append(acquireLog, [at |-> now, allowed |-> ~rl.threw])
    /\ UNCHANGED <<configVars, clockVars, responseCache, chatVars, putLog, lastGet, lastPut,
                   sanVars, pureVars>>

InitRateLimit ==
    /\ windowKey = null
    /\ envKey = null
    /\ InitPage
    /\ \E limit \in Limits : InitTracker(limit)
    /\ responseCache = <<>>
    /\ InitChat
    /\ InitComponents
    /\ InitSanitizer

NextRateLimit ==
    \/ \E d \in Deltas : Tick(d)
    \/ TryAcquire

SpecRateLimit == InitRateLimit /\ [][NextRateLimit]_vars

\* ================================================== the cache on its own
CacheInputs ==
    { <<"a">>, <<"A", " ">>, <<"b">>, <<"c">>, <<"d">> }

CachePut(userMessage, response) ==
    /\ Len(putLog) < CacheLimit + 2
    /\ responseCache' = setCachedResponse(responseCache, userMessage, response)
    /\ putLog' = Append(putLog, cacheKey(userMessage))
    /\ lastGet' = NoGet
    /\ lastPut' = [key |-> cacheKey(userMessage), value |-> response]
    /\ UNCHANGED <<configVars, clockVars, rateLimitTracker, chatVars, acquireLog,
                   sanVars, pureVars>>

CacheGet(userMessage) ==
    /\ lastGet' = [key |-> cacheKey(userMessage),
                   value |-> getCachedResponse(responseCache, userMessage),
                   made |-> TRUE]
    /\ UNCHANGED <<configVars, clockVars, rateLimitTracker, responseCache, chatVars,
                   acquireLog, putLog, lastPut, sanVars, pureVars>>

NextCache ==
    \/ \E userMessage \in CacheInputs, response \in Answers :
           CachePut(userMessage, response)
    \/ \E userMessage \in CacheInputs : CacheGet(userMessage)

InitCache ==
    /\ windowKey = null
    /\ envKey = null
    /\ InitPage
    /\ InitTracker(MaxLimit)
    /\ responseCache = <<>>
    /\ InitChat
    /\ InitComponents
    /\ InitSanitizer

SpecCache == InitCache /\ [][NextCache]_vars

\* ============================================== the sanitizer on its own
SanAlphabet == {"a", " ", "<", ">", "/"}
ShortTexts == UNION { [1..n -> SanAlphabet] : n \in 0..MaxLen }

Repeat(c, n) == [i \in 1..n |-> c]

\* " <script>hi</script> "
ScriptExample ==
    <<" ", "<", "s", "c", "r", "i", "p", "t", ">", "h", "i",
      "<", "/", "s", "c", "r", "i", "p", "t", ">", " ">>

\* Texts of 500 characters more than the sanitizer keeps.
LongLength == MaxInputLength + 500
LongTexts ==
    { Repeat("a", LongLength),
      <<" ">> \o Repeat("a", LongLength - 1),
      <<"<">> \o Repeat("a", LongLength - 2) \o <<">">>,
      Repeat("<", 600) \o Repeat("a", LongLength - 600),
      Repeat("a", MaxInputLength - 1) \o <<" ">> \o Repeat("a", 500) }

SanInputs == ShortTexts \cup {ScriptExample}

Sanitize ==
    /\ ~sanDone
    /\ sanOut' = sanitizeInput(sanIn)
    /\ sanDone' = TRUE
    /\ UNCHANGED <<configVars, clockVars, rateLimitTracker, responseCache, chatVars,
                   acquireLog, putLog, lastGet, lastPut, sanIn, pureVars>>

InitSanitize ==
    /\ windowKey = null
    /\ envKey = null
    /\ InitPage
    /\ InitTracker(MaxLimit)
    /\ responseCache = <<>>
    /\ InitChat
    /\ InitComponents
    /\ sanIn \in SanInputs
    /\ sanOut = <<>>
    /\ sanDone = FALSE

\* A long text is given to the sanitizer once the empty text has been through.
TypeLongText(input) ==
    /\ sanDone
    /\ sanIn = <<>>
    /\ sanIn' = input
    /\ sanOut' = <<>>
    /\ sanDone' = FALSE
    /\ UNCHANGED <<configVars, clockVars, rateLimitTracker, responseCache, chatVars,
                   acquireLog, putLog, lastGet, lastPut, pureVars>>

NextSanitize ==
    \/ Sanitize
    \/ \E input \in LongTexts : TypeLongText(input)

SpecSanitize == InitSanitize /\ [][NextSanitize]_vars

\* ===================================== the fallback responder on its own
FbAlphabet == {"h", "e", "l", "p", " "}
FbKeywordTexts ==
    { WordNavigate, WordHowToUse, WordHelp,
      <<"H", "E", "L", "P">>,
      <<"a", " ">> \o WordHelp \o <<"!">>,
      <<"h", "e", "l", " ", "p">> }
FbInputs == UNION { [1..n -> FbAlphabet] : n \in 0..MaxLen } \cup FbKeywordTexts

Fallback ==
    /\ fbOut = NoAnswer
    /\ fbOut' = getFallbackResponse(fbIn)
    /\ UNCHANGED <<configVars, clockVars, rateLimitTracker, responseCache, chatVars,
                   acquireLog, putLog, lastGet, lastPut, sanVars, fbIn, vrVars>>

InitFallback ==
    /\ windowKey = null
    /\ envKey = null
    /\ InitPage
    /\ InitTracker(MaxLimit)
    /\ responseCache = <<>>
    /\ InitChat
    /\ acquireLog = <<>>
    /\ putLog = <<>>
    /\ lastGet = NoGet
    /\ lastPut = NoPut
    /\ InitSanitizer
    /\ fbIn \in FbInputs
    /\ fbOut = NoAnswer
    /\ InitValidator

NextFallback == Fallback

SpecFallback == InitFallback /\ [][NextFallback]_vars

\* ================================== the response validator on its own
VrAlphabet == {"a", "b", ".", " "}
ResponseLengths ==
    {MaxResponseLength - 1, MaxResponseLength, MaxResponseLength + 1,
     MaxResponseLength + 1000}
VrInputs ==
    UNION { [1..n -> VrAlphabet] : n \in 0..MaxLen }
    \cup { [i \in 1..n |-> c] : c \in VrAlphabet, n \in ResponseLengths }
    \cup { ResponseTooLong }

Validate ==
    /\ ~vrDone
    /\ vrOut' = validateResponse(vrIn)
    /\ vrDone' = TRUE
    /\ UNCHANGED <<configVars, clockVars, rateLimitTracker, responseCache, chatVars,
                   acquireLog, putLog, lastGet, lastPut, sanVars, fbVars, vrIn>>

InitValidate ==
    /\ windowKey = null
    /\ envKey = null
    /\ InitPage
    /\ InitTracker(MaxLimit)
    /\ responseCache = <<>>
    /\ InitChat
    /\ acquireLog = <<>>
    /\ putLog = <<>>
    /\ lastGet = NoGet
    /\ lastPut = NoPut
    /\ InitSanitizer
    /\ fbIn = <<>>
    /\ fbOut = NoAnswer
    /\ vrIn \in VrInputs
    /\ vrOut = <<>>
    /\ vrDone = FALSE

NextValidate == Validate

SpecValidate == InitValidate /\ [][NextValidate]_vars

\* =============================================== config.js on its own
Hostnames ==
    { Localhost, Loopback, <<>>,
      <<"x", ".", "g", "i", "t", "h", "u", "b", ".", "i", "o">>,
      <<"r", "a", "w", ".", "g", "i", "t", "h", "u", "b", "u", "s", "e", "r", "c", "o", "n", "t", "e", "n", "t", ".", "c", "o", "m">>,
      <<"e", "x", "a", "m", "p", "l", "e", ".", "o", "r", "g">>,
      <<"l", "o", "c", "a", "l", "h", "o", "s", "t", ".", "g", "i", "t", "h", "u", "b", ".", "i", "o">>,
      <<"1", "2", "7", ".", "0", ".", "0", ".", "2">>,
      <<"m", "y", "l", "o", "c", "a", "l", "h", "o", "s", "t">> }

\* The timer callback registered at lines 90-111: validateAndLogConfig again.
Revalidate ==
    /\ configPc = "loaded"
    /\ hasKey' = validateAndLogConfig(apiKey(windowKey, envKey))
    /\ configPc' = "revalidated"
    /\ UNCHANGED <<windowKey, envKey, hostname, environment, debugMode, noProcess,
                   clockVars, rateLimitTracker, responseCache, chatVars, componentVars>>

InitConfig ==
    /\ windowKey \in {BadKey, GoodKey, null}
    /\ noProcess \in BOOLEAN
    /\ envKey \in IF noProcess THEN {null} ELSE {null, GoodKey, BadKey}
    /\ hostname \in Hostnames
    /\ ConfigLoaded
    /\ InitTracker(MaxLimit)
    /\ responseCache = <<>>
    /\ InitChat
    /\ InitComponents
    /\ InitSanitizer

NextConfig ==
    \/ \E k \in {GoodKey, BadKey} : InjectApiKey(k)
    \/ Revalidate

SpecConfig == InitConfig /\ [][NextConfig]_vars

\* ================================================================== claims
\* The bot messages rendered for call id.
BotMessagesOf(id) ==
    {i \in 1..Len(messages) : messages[i].type = "bot" /\ messages[i].call = id}

\* A call that went into getAIResponse (line 227).
Submitted(id) == calls[id].pc \in {"fetching", "done"}

\* The spec's sources model, fallback, error; the code writes 'claude' for model.
Sources == {"claude", "fallback", "error"}

\* C1: every submit call that has ended delivered exactly one result, whose
\* message is a non-empty text and whose source is model, fallback or error.
\* (handleSendMessage returns at line 212 on whitespace-only text, before any
\* submit; those invocations are not counted here.)
C1_OneResultNonEmptyMessage ==
    \A id \in CallIds :
        calls[id].pc = "done" =>
            /\ Cardinality(BotMessagesOf(id)) = 1
            /\ \A i \in BotMessagesOf(id) :
                   /\ messages[i].message # undefined
                   /\ messages[i].message # ""
                   /\ messages[i].source \in Sources

\* C2: while no credential resolves, no upstream request has been issued and
\* every result delivered has source fallback.
C2_NoCredentialNoRequest ==
    apiKey(windowKey, envKey) = null =>
        /\ netCalls = 0
        /\ \A i \in 1..Len(messages) :
               messages[i].type = "bot" => messages[i].source = "fallback"

\* C3: a submit call made while the cache holds an entry for its text is
\* answered without an upstream request, with source model and the message
\* that an earlier call with the same key delivered.  (Calls that threw while
\* building the context are left out: they end with source error.)
C3_RepeatServedFromCache ==
    \A id \in CallIds :
        (Submitted(id) /\ calls[id].hadEntry /\ calls[id].via # "error") =>
            /\ calls[id].via = "cache"
            /\ \A i \in BotMessagesOf(id) :
                   /\ messages[i].source = "claude"
                   /\ \E j \in 1..(i - 1) :
                          /\ messages[j].type = "bot"
                          /\ messages[j].call < id
                          /\ messages[j].source = "claude"
                          /\ messages[j].message = messages[i].message
                          /\ cacheKey(sanitizeInput(calls[messages[j].call].raw))
                                 = cacheKey(sanitizeInput(calls[id].raw))

\* C6: a call denied by the rate limiter ends with source fallback and a
\* notice of its own: not the answer a failed upstream call gets for the same
\* text, not the connection-trouble text, not the generic error apology.
C6_DenialHasItsOwnNotice ==
    \A id \in CallIds :
        (calls[id].pc = "done" /\ calls[id].via = "denied") =>
            \A i \in BotMessagesOf(id) :
                /\ messages[i].source = "fallback"
                /\ messages[i].message # getFallbackResponse(calls[id].raw).message
                /\ messages[i].message # ConnectTrouble
                /\ messages[i].message # ErrorApology

C4_FixedWindowVerdicts ==
    \A i \in 1..Len(acquireLog) :
        LET at == acquireLog[i].at
            L == rateLimitTracker.maxRequests
        IN  /\ (at - 0 <= oneMinute /\ i <= L) => acquireLog[i].allowed
            /\ (at - 0 <= oneMinute /\ i > L) => ~acquireLog[i].allowed
            /\ (at - 0 > oneMinute /\ \A j \in 1..(i - 1) : acquireLog[j].at <= oneMinute)
                   => acquireLog[i].allowed

\* Ceiling 3: three grants and a denial at time 0, a grant at 60001.
C4_Witness ==
    /\ rateLimitTracker.maxRequests = 3
    /\ Len(acquireLog) = 5
    /\ [i \in 1..5 |-> acquireLog[i].allowed] = <<TRUE, TRUE, TRUE, FALSE, TRUE>>
    /\ acquireLog[4].at = 0
    /\ acquireLog[5].at = oneMinute + 1

\* C5: the count stays between 0 and the ceiling, and a call is granted only
\* when the count (after a due reset) was below the ceiling just before the
\* increment.
CountInRange ==
    /\ rateLimitTracker.requests >= 0
    /\ rateLimitTracker.requests <= rateLimitTracker.maxRequests

GrantOnlyBelowCeiling ==
    (Len(acquireLog') = Len(acquireLog) + 1 /\ acquireLog'[Len(acquireLog')].allowed)
        => LET before == IF now - rateLimitTracker.lastReset > oneMinute
                         THEN 0
                         ELSE rateLimitTracker.requests
           IN  /\ before < rateLimitTracker.maxRequests
               /\ rateLimitTracker'.requests = before + 1

C5_CountNeverExceedsLimit == []CountInRange /\ [][GrantOnlyBelowCeiling]_vars

\* The ceiling was reached by grants and a call was denied at it.
C5_Witness ==
    /\ rateLimitTracker.requests = rateLimitTracker.maxRequests
    /\ \E i \in 1..Len(acquireLog) : acquireLog[i].allowed
    /\ \E i \in 1..Len(acquireLog) : ~acquireLog[i].allowed

\* ------------------------------------------------- claims on the cache
AllDistinct(seq) == Cardinality({seq[i] : i \in 1..Len(seq)}) = Len(seq)

\* C8: the cache never holds more entries than its capacity.
C8_CacheWithinCapacity == Len(responseCache) <= CacheLimit

\* More distinct keys than the capacity were put, and the cache is full.
C8_Witness ==
    /\ Len(putLog) > CacheLimit
    /\ AllDistinct(putLog)
    /\ Len(responseCache) = CacheLimit

\* C9: after distinct keys were put, the cache holds the most recently put
\* ones in insertion order; with capacity+1 puts that is every key but the
\* first, a get on the first returns nothing and a get on any other returns
\* its answer, whatever gets were made in between.
C9_FirstInsertedEvicted ==
    AllDistinct(putLog) =>
        LET n == Len(putLog)
            kept == IF n < CacheLimit THEN n ELSE CacheLimit
        IN  /\ MapKeys(responseCache) = SubSeq(putLog, n - kept + 1, n)
            /\ n = CacheLimit + 1 =>
                   /\ MapKeys(responseCache) = Tail(putLog)
                   /\ (lastGet.made /\ \E i \in 1..n : putLog[i] = lastGet.key) =>
                          (lastGet.value = undefined <=> lastGet.key = putLog[1])

\* capacity+1 distinct keys were put and a get was made on the first of them.
C9_Witness ==
    /\ Len(putLog) = CacheLimit + 1
    /\ AllDistinct(putLog)
    /\ lastGet.made
    /\ lastGet.key = putLog[1]
    /\ lastGet.value = undefined

\* --------------------------------------------- claims on the sanitizer
Scripthi == <<"s", "c", "r", "i", "p", "t", "h", "i">>
ScripthiSlashScript == Scripthi \o <<"/", "s", "c", "r", "i", "p", "t">>

\* A text with no angle bracket and no whitespace at either end.
Clean(s) ==
    /\ \A i \in 1..Len(s) : s[i] \notin AngleBrackets
    /\ Len(s) > 0 => (s[1] \notin Whitespace /\ s[Len(s)] \notin Whitespace)

\* C10 as stated: sanitize(" <script>hi</script> ") is "scripthi", and a text
\* of 2500 characters comes out 2000 characters long.
C10_AsStated ==
    sanDone =>
        /\ sanIn = ScriptExample => sanOut = Scripthi
        /\ Len(sanIn) = LongLength => Len(sanOut) = MaxInputLength

\* C10 amended: sanitize(" <script>hi</script> ") is "scripthi/script"; a text
\* of 2500 characters comes out at most 2000 characters long, and as its first
\* 2000 characters when it has no angle bracket and no whitespace at its ends.
C10_ScriptExampleAndTruncation ==
    sanDone =>
        /\ sanIn = ScriptExample => sanOut = ScripthiSlashScript
        /\ Len(sanIn) = LongLength =>
               /\ Len(sanOut) <= MaxInputLength
               /\ Clean(sanIn) => sanOut = SubSeq(sanIn, 1, MaxInputLength)

\* The script example has been sanitized.
C10_Witness == sanDone /\ sanIn = ScriptExample /\ sanOut = ScripthiSlashScript

\* ------------------------------------------------ claims on the chat, ctd.
\* C11: the user message of every upstream request is the sanitizer's output
\* for the text typed, and every key of the cache is the case-normalized
\* sanitized text of a submitted call.
C11_DownstreamUsesSanitizedText ==
    /\ \A id \in CallIds :
           calls[id].via = "fetch" => calls[id].content = sanitizeInput(calls[id].raw)
    /\ \A i \in 1..Len(responseCache) :
           \E id \in CallIds :
               /\ Submitted(id)
               /\ responseCache[i].key = toLowerCase(sanitizeInput(calls[id].raw))

\* C12: a call whose upstream request failed (HTTP 429 or any other client
\* error) ends with the fallback responder's answer, source fallback, and the
\* settling of the failed request leaves the rate window as it was.
FailureEndsInFallback ==
    \A id \in CallIds :
        (calls[id].pc = "done" /\ calls[id].outcome \in {"status429", "clientError"}) =>
            \A i \in BotMessagesOf(id) :
                /\ messages[i].source = "fallback"
                /\ messages[i].message = getFallbackResponse(calls[id].raw).message

FailureLeavesWindow ==
    \A id \in CallIds :
        (calls[id].pc = "fetching" /\ calls'[id].outcome \in {"status429", "clientError"})
            => rateLimitTracker' = rateLimitTracker

C12_UpstreamFailureFallsBack == []FailureEndsInFallback /\ [][FailureLeavesWindow]_vars

\* -------------------------------------- claims on the fallback responder
\* The lower-cased text holds one of the responder's keywords.
HasKeyword(s) ==
    \E w \in {WordNavigate, WordHowToUse, WordHelp} : includes(toLowerCase(s), w)

\* C13: for every text, the empty one included, the fallback responder returns
\* a non-empty answer with source fallback; it is the generic suggestions
\* answer when the text holds no keyword.
C13_FallbackTotal ==
    fbOut # NoAnswer =>
        /\ fbOut.source = "fallback"
        /\ fbOut.message \notin {"", undefined}
        /\ ~HasKeyword(fbIn) => fbOut.message = DefaultFallback
        /\ HasKeyword(fbIn) => fbOut.message = NavigationHelp

\* The empty text was answered with the generic suggestions.
C13_Witness == fbIn = <<>> /\ fbOut = [message |-> DefaultFallback, source |-> "fallback"]

\* ------------------------------------------------- claims on config.js
\* C14: once config.js has run, it has not failed, and the credential that
\* CONFIG.claude.apiKey exposes is null or starts with 'sk-ant-'.
C14_MalformedTreatedAsAbsent ==
    /\ configPc # "aborted"
    /\ LET k == apiKey(windowKey, envKey)
       IN  k # null => startsWith(k, "sk-ant-")

AbsentAtLoad == hasKey = "false"

\* C16: when the credential was absent at load, no submit call made after a
\* credential turned up sends it upstream, and no result has source model.
\* (Requests made while the credential is still absent are the matter of C2.)
C16_AbsentCredentialStaysDisabled ==
    AbsentAtLoad =>
        /\ \A id \in CallIds : calls[id].via = "fetch" => calls[id].xApiKey = null
        /\ \A i \in 1..Len(messages) :
               messages[i].type = "bot" => messages[i].source # "claude"

\* C17: a call in which an exception reached handleSendMessage (thrown while
\* the context was built) ended with exactly one result, whose source is error
\* and whose message is the fixed apology whatever the error and the
\* credential; the call is over and the typing indicator was cleared by it.
C17_ExceptionYieldsErrorResult ==
    \A id \in CallIds :
        calls[id].via = "error" =>
            /\ calls[id].pc = "done"
            /\ Cardinality(BotMessagesOf(id)) = 1
            /\ \A i \in BotMessagesOf(id) :
                   /\ messages[i].source = "error"
                   /\ messages[i].message = ErrorApology
                   /\ messages[i].message # ContextError

\* A call threw while a credential was configured.
C17_Witness ==
    \E id \in CallIds :
        /\ calls[id].via = "error"
        /\ apiKey(windowKey, envKey) # null
        /\ BotMessagesOf(id) # {}

\* ------------------------------------------- claims on config.js, ctd.
\* The tier is development exactly for the host names localhost and
\* 127.0.0.1; debug mode, model and max tokens follow the tier.
TierFollowsHost ==
    LET dev == hostname \in {Localhost, Loopback}
    IN  /\ environment = IF dev THEN "development" ELSE "production"
        /\ debugMode = dev
        /\ models(environment) =
               IF dev THEN "claude-3-haiku-20240307" ELSE "claude-3-sonnet-20240229"
        /\ maxTokens(environment) = IF dev THEN 500 ELSE 1000

\* C18: the tier is development exactly when the host name is localhost or
\* 127.0.0.1 and production for every other host name, model and max tokens
\* follow it, and no operation after load (key injection, re-validation)
\* changes it.
C18_TierFromHostAndFixed == []TierFollowsHost /\ [][environment' = environment]_vars

\* A development page whose key was injected after load has been re-validated.
C18_Witness ==
    /\ hostname = Loopback
    /\ environment = "development"
    /\ configPc = "revalidated"
    /\ windowKey # null
    /\ hasKey = "true"

\* ------------------------------------------------ claims on the chat, ctd.
\* C19: the answers rendered in the chat are in the order of their requests:
\* no answer of an earlier call is rendered after the answer of a later call
\* (the stale result is discarded).
C19_AnswersInRequestOrder ==
    \A i, j \in 1..Len(messages) :
        (i < j /\ messages[i].type = "bot" /\ messages[j].type = "bot")
            => messages[i].call <= messages[j].call

\* ------------------------------------- claims on the rate limiter, ctd.
\* The calls granted in the 60 seconds that start at time t.
GrantedWithinMinuteFrom(t) ==
    {j \in 1..Len(acquireLog) :
        /\ acquireLog[j].allowed
        /\ acquireLog[j].at >= t
        /\ acquireLog[j].at < t + oneMinute}

\* C20: in every interval of 60 seconds, wherever it starts, at most
\* maxRequests calls are granted.
C20_CeilingInEveryMinute ==
    \A i \in 1..Len(acquireLog) :
        Cardinality(GrantedWithinMinuteFrom(acquireLog[i].at))
            <= rateLimitTracker.maxRequests

\* ----------------------------------------- claims on the sanitizer, ctd.
\* C21: what sanitizeInput returns is a fixed point of sanitizeInput, is at
\* most 2000 characters long, holds no '<' or '>' and neither starts nor ends
\* with whitespace.
C21_SanitizeIdempotentCanonical ==
    sanDone =>
        /\ sanitizeInput(sanOut) = sanOut
        /\ Len(sanOut) <= MaxInputLength
        /\ Clean(sanOut)

\* --------------------------------------------- claims on the cache, ctd.
\* A put on a key that the cache holds leaves the number of entries, the keys
\* and their order as they were, evicts nothing, gives the key the new value
\* and leaves every other entry alone.
RePutKeepsPosition ==
    (Len(putLog') = Len(putLog) + 1 /\ MapHas(responseCache, lastPut'.key)) =>
        /\ Len(responseCache') = Len(responseCache)
        /\ MapKeys(responseCache') = MapKeys(responseCache)
        /\ \A i \in 1..Len(responseCache) :
               responseCache'[i].value =
                   IF responseCache[i].key = lastPut'.key
                   THEN lastPut'.value
                   ELSE responseCache[i].value

\* Distinct keys filled the cache, the first of them was put again, then a
\* new key was put.
FirstRePutThenNewKey ==
    /\ Len(putLog) = CacheLimit + 2
    /\ AllDistinct(SubSeq(putLog, 1, CacheLimit))
    /\ putLog[CacheLimit + 1] = putLog[1]
    /\ \A i \in 1..CacheLimit : putLog[CacheLimit + 2] # putLog[i]

\* After that the key put twice is the one that is gone.
RePutFirstStillEvicted ==
    FirstRePutThenNewKey =>
        MapKeys(responseCache) = SubSeq(putLog, 2, CacheLimit) \o <<putLog[CacheLimit + 2]>>

\* C22: a put on a key already in the cache replaces its value, changes
\* neither the number of entries nor the key's position and evicts nothing;
\* a key inserted first and put again is still the first to be evicted.
C22_RePutKeepsInsertionPosition ==
    []RePutFirstStillEvicted /\ [][RePutKeepsPosition]_vars

\* The first key was put again with another answer and then evicted by a new
\* key.
C22_Witness ==
    /\ FirstRePutThenNewKey
    /\ ~MapHas(responseCache, putLog[1])
    /\ Len(responseCache) = CacheLimit

\* ------------------------------------------------ claims on the chat, ctd.
\* C23: the typing indicator is on exactly when some handleSendMessage call
\* is still waiting for its answer.
C23_TypingExactlyWhilePending ==
    isTyping <=> \E id \in CallIds : calls[id].pc = "fetching"

====
